---- MODULE Spec2Model ----
(***************************************************************************)
(* Model of the text analysis pipeline of the LLM Knowledge Extractor:     *)
(* app/main.py (request handlers), app/services/llm_service.py (provider   *)
(* calls with retry, mock fallback, metadata validation), app/crud.py and  *)
(* app/database.py (persistence).                                          *)
(*                                                                         *)
(* Strings are sequences of characters.  A character is a TLA+ string; a   *)
(* multi-letter one such as "positive" stands for that run of letters and  *)
(* contains no whitespace and no full stop.                                *)
(***************************************************************************)
EXTENDS Integers, Sequences, FiniteSets, TLC

(***************************************************************************)
(* Python string operations                                                *)
(***************************************************************************)

\* the whitespace characters str.strip() and str.split() act on
Whitespace == {" "}

\* the positions of s that hold no whitespace
Inked(s) == {i \in 1..Len(s) : s[i] \notin Whitespace}

\* str.lstrip()
lstrip(s) ==
    LET inked == Inked(s)
    IN  IF inked = {} THEN <<>>
        ELSE SubSeq(s, CHOOSE i \in inked : \A j \in inked : i <= j, Len(s))

\* str.rstrip()
rstrip(s) ==
    LET inked == Inked(s)
    IN  IF inked = {} THEN <<>>
        ELSE SubSeq(s, 1, CHOOSE i \in inked : \A j \in inked : i >= j)

\* str.strip()
strip(s) == rstrip(lstrip(s))

\* one character of str.lower()
LowerChar(c) ==
    CASE c = "Positive" -> "positive"
      [] c = "NEGATIVE" -> "negative"
      [] c = "Neutral" -> "neutral"
      [] c = "A" -> "a" [] c = "B" -> "b" [] c = "C" -> "c" [] c = "D" -> "d"
      [] c = "E" -> "e" [] c = "G" -> "g" [] c = "I" -> "i" [] c = "L" -> "l"
      [] c = "N" -> "n" [] c = "R" -> "r" [] c = "T" -> "t" [] c = "Y" -> "y"
      [] OTHER -> c

\* str.lower()
lower(s) == [i \in 1..Len(s) |-> LowerChar(s[i])]

\* not text or not text.strip()
IsBlankText(t) == t = <<>> \/ strip(t) = <<>>

\* s[:n]
Prefix(s, n) == SubSeq(s, 1, IF Len(s) < n THEN Len(s) ELSE n)

\* the positions where a whitespace-separated word starts, and where one ends
WordStarts(s) ==
    {i \in 1..Len(s) : s[i] \notin Whitespace /\ (i = 1 \/ s[i - 1] \in Whitespace)}

WordEnds(s) ==
    {i \in 1..Len(s) : s[i] \notin Whitespace /\ (i = Len(s) \/ s[i + 1] \in Whitespace)}

RECURSIVE Sorted(_)
Sorted(S) ==
    IF S = {} THEN <<>>
    ELSE LET m == CHOOSE x \in S : \A y \in S : x <= y
         IN  <<m>> \o Sorted(S \ {m})

\* str.split(): the whitespace-separated words, in order
split(s) ==
    LET b == Sorted(WordStarts(s))
        e == Sorted(WordEnds(s))
    IN  [k \in 1..Len(b) |-> SubSeq(s, b[k], e[k])]

\* sep.join(parts)
RECURSIVE join(_, _)
join(sep, parts) ==
    IF parts = <<>> THEN <<>>
    ELSE IF Len(parts) = 1 THEN parts[1]
    ELSE parts[1] \o sep \o join(sep, Tail(parts))

\* s.split('.'): the segments between full stops, empty ones included
RECURSIVE splitDot(_)
splitDot(s) ==
    IF \A i \in 1..Len(s) : s[i] # "." THEN <<s>>
    ELSE LET p == CHOOSE i \in 1..Len(s) : s[i] = "." /\ \A j \in 1..(i - 1) : s[j] # "."
         IN  <<SubSeq(s, 1, p - 1)>> \o splitDot(SubSeq(s, p + 1, Len(s)))

(***************************************************************************)
(* Decoded JSON values, tagged by their Python type                        *)
(***************************************************************************)

JNone == [t |-> "None"]
JInt(n) == [t |-> "int", n |-> n]
JStr(s) == [t |-> "str", s |-> s]
JList(l) == [t |-> "list", l |-> l]
JDict(d) == [t |-> "dict", d |-> d]

\* str(n) for the small numbers that occur
Digits(n) == CASE n = 0 -> <<"0">> [] n = 1 -> <<"1">> [] n = 2 -> <<"2">>
               [] n = 3 -> <<"3">> [] n = 4 -> <<"4">> [] OTHER -> <<"5">>

\* str(v)
str(v) ==
    CASE v.t = "str" -> v.s
      [] v.t = "None" -> <<"None">>
      [] v.t = "int" -> Digits(v.n)
      [] v.t = "list" -> <<"[", "]">>
      [] OTHER -> <<"{", "}">>

\* dict.get(key, default)
get(d, key, default) == IF key \in DOMAIN d THEN d[key] ELSE default

\* the outcome of a call: a returned value or a raised exception
Return(v) == [ok |-> TRUE, value |-> v]
Raise(e) == [ok |-> FALSE, exc |-> e]

(***************************************************************************)
(* LLMService                                                              *)
(***************************************************************************)

max_retries == 3

\* the characters of the text that go into a prompt
PromptLimit == 2000

\* _mock_summary echoes a text of at most this many words
MockEchoWords == 20

\* and quotes this many words of a longer one
MockQuoteWords == 15

OfflineMarker == <<"[", "Summary", " ", "generated", " ", "offline", "]">>

Sentiments == {<<"positive">>, <<"negative">>, <<"neutral">>}


\* one cleaned topic kept by _validate_metadata
NonEmpty(s) == s # <<>>

\* a variant of the placeholder that is not in trimmed form
PaddedTopicLabel(n) == <<"Topic", " ">> \o Digits(n) \o <<" ">>

\* the placeholder f"Topic {n}"
TopicLabel(n) == <<"Topic", " ">> \o Digits(n)

\* while len(cleaned_topics) < 3: append f"Topic {len(cleaned_topics) + 1}"
RECURSIVE PadTopics(_)
PadTopics(c) == IF Len(c) < 3 THEN PadTopics(Append(c, TopicLabel(Len(c) + 1))) ELSE c

\* the title branch of _validate_metadata
CleanTitle(title) ==
    IF title.t = "str" /\ strip(title.s) # <<>> THEN JStr(strip(title.s)) ELSE JNone

\* the list branch of the topics validation
CleanTopicList(l) ==
    LET stripped == [i \in 1..Len(l) |-> strip(str(l[i]))]
        cleaned == Prefix(SelectSeq(stripped, NonEmpty), 3)
    IN  Prefix(PadTopics(cleaned), 3)

GenericTopics == <<<<"General">>, <<"Information">>, <<"Content">>>>

\* the topics branch of _validate_metadata
CleanTopics(topics) ==
    LET l == IF topics.t = "list" THEN CleanTopicList(topics.l) ELSE GenericTopics
    IN  JList([i \in 1..Len(l) |-> JStr(l[i])])

\* the sentiment branch of _validate_metadata, on the lower-cased string
CleanSentiment(sentiment) ==
    IF sentiment \in Sentiments THEN JStr(sentiment) ELSE JStr(<<"neutral">>)

\* LLMService._validate_metadata: the cleaned dict, or the exception it raises
_validate_metadata(metadata) ==
    IF metadata.t # "dict" THEN Raise("AttributeError")
    ELSE LET title == get(metadata.d, "title", JNone)
             topics == get(metadata.d, "topics", JList(<<>>))
             sentiment == get(metadata.d, "sentiment", JStr(<<"neutral">>))
         IN  IF sentiment.t # "str" THEN Raise("AttributeError")
             ELSE Return(JDict([title |-> CleanTitle(title),
                                topics |-> CleanTopics(topics),
                                sentiment |-> CleanSentiment(lower(sentiment.s))]))

\* a variant of _mock_summary that echoes only texts of fewer than MockEchoWords words
StrictMockSummary(text) ==
    LET words == split(text)
    IN  IF Len(words) < MockEchoWords THEN text
        ELSE <<"This", " ", "text", " ", "discusses", " ">>
             \o join(<<" ">>, Prefix(words, MockQuoteWords))
             \o <<".", ".", ".", " ">> \o OfflineMarker

\* LLMService._mock_summary
_mock_summary(text) ==
    LET words == split(text)
    IN  IF Len(words) <= MockEchoWords THEN text
        ELSE <<"This", " ", "text", " ", "discusses", " ">>
             \o join(<<" ">>, Prefix(words, MockQuoteWords))
             \o <<".", ".", ".", " ">> \o OfflineMarker

\* LLMService._mock_metadata
_mock_metadata(text) ==
    JDict([title |-> JNone,
           topics |-> JList(<<JStr(<<"General">>), JStr(<<"Content">>),
                              JStr(<<"Information">>)>>),
           sentiment |-> JStr(<<"neutral">>)])

\* what generate_summary and extract_metadata return: a value, made by the
\* provider or by the mock
Provided(v) == [ok |-> TRUE, value |-> v, mock |-> FALSE]
Mocked(v) == [ok |-> TRUE, value |-> v, mock |-> TRUE]

\* generate_summary after _make_api_call: strip the response and clip it to two
\* sentences; any exception gives the mock summary
generate_summary(r, text) ==
    IF ~r.ok THEN Mocked(_mock_summary(text))
    ELSE LET summary == strip(r.value)
             sentences == splitDot(summary)
         IN  IF Len(sentences) > 3
             THEN Provided(join(<<".", " ">>, Prefix(sentences, 2)) \o <<".">>)
             ELSE Provided(summary)

\* the JSON documents the provider answers with, by the character standing for them
JsonDocs ==
    [ full |-> JDict([title |-> JStr(<<" ", "T", " ">>),
                      topics |-> JList(<<JStr(<<"x">>), JStr(<<" ">>), JInt(2),
                                         JStr(<<"y", " ">>), JStr(<<"z">>)>>),
                      sentiment |-> JStr(<<"Positive">>)]),
      odd  |-> JDict([title |-> JInt(1),
                      topics |-> JNone,
                      sentiment |-> JStr(<<"very_positive">>)]),
      null |-> JDict([topics |-> JList(<<>>), sentiment |-> JNone]),
      list |-> JList(<<>>) ]

\* json.loads on the provider's response: a document, with whitespace around it
json_loads(response) ==
    LET body == strip(response)
    IN  IF Len(body) = 1 /\ body[1] \in DOMAIN JsonDocs THEN Return(JsonDocs[body[1]])
        ELSE Raise("JSONDecodeError")

\* a variant of extract_metadata without the handler of `except Exception`: what
\* the validator raises reaches the caller
UnguardedExtractMetadata(r, text) ==
    IF ~r.ok THEN Mocked(_mock_metadata(text))
    ELSE LET decoded == json_loads(r.value)
         IN  IF ~decoded.ok THEN Mocked(_mock_metadata(text))
             ELSE LET cleaned == _validate_metadata(decoded.value)
                  IN  IF cleaned.ok THEN Provided(cleaned.value) ELSE cleaned

\* a variant of extract_metadata without the handler of json.JSONDecodeError:
\* the decoding error reaches the caller
UndecodedExtractMetadata(r, text) ==
    IF ~r.ok THEN Mocked(_mock_metadata(text))
    ELSE LET decoded == json_loads(r.value)
         IN  IF ~decoded.ok THEN decoded
             ELSE LET cleaned == _validate_metadata(decoded.value)
                  IN  IF cleaned.ok THEN Provided(cleaned.value)
                      ELSE Mocked(_mock_metadata(text))

\* extract_metadata after _make_api_call: decode and validate the response; a
\* JSONDecodeError or any other exception gives the mock metadata
extract_metadata(r, text) ==
    IF ~r.ok THEN Mocked(_mock_metadata(text))
    ELSE LET decoded == json_loads(r.value)
         IN  IF ~decoded.ok THEN Mocked(_mock_metadata(text))
             ELSE LET cleaned == _validate_metadata(decoded.value)
                  IN  IF cleaned.ok THEN Provided(cleaned.value)
                      ELSE Mocked(_mock_metadata(text))

\* a variant of the last-attempt test that lets one more attempt through
LateLastAttempt(a) == a = max_retries

\* _make_api_call: attempt is the last one of range(max_retries)
IsLastAttempt(a) == a = max_retries - 1

\* asyncio.sleep(2 ** attempt)
BackoffSeconds(a) == 2 ^ a

(***************************************************************************)
(* TextProcessor                                                           *)
(***************************************************************************)

Letters == {"a", "b", "c", "d", "e", "g", "i", "l", "n", "r", "t", "y"}

\* one character of str.upper()
UpperChar(c) ==
    CASE c = "a" -> "A" [] c = "b" -> "B" [] c = "c" -> "C" [] c = "d" -> "D"
      [] c = "e" -> "E" [] c = "g" -> "G" [] c = "i" -> "I" [] c = "l" -> "L"
      [] c = "n" -> "N" [] c = "r" -> "R" [] c = "t" -> "T" [] c = "y" -> "Y"
      [] OTHER -> c

upper(s) == [i \in 1..Len(s) |-> UpperChar(s[i])]

\* str.title() of one lower-case word
title(w) == IF w = <<>> THEN w ELSE <<UpperChar(w[1])>> \o Tail(w)

\* sub in s
Contains(s, sub) ==
    \E i \in 1..(Len(s) - Len(sub) + 1) : \A k \in 1..Len(sub) : s[i + k - 1] = sub[k]

\* s.endswith(suffix)
EndsWith(s, suffix) ==
    Len(s) >= Len(suffix) /\ SubSeq(s, Len(s) - Len(suffix) + 1, Len(s)) = suffix

\* token.isalpha(), over the lower-cased text
IsAlpha(w) == w # <<>> /\ \A i \in 1..Len(w) : w[i] \in Letters

\* the stop words TextProcessor falls back on without the NLTK corpus
StopWords ==
    { <<"t", "h", "e">>, <<"a">>, <<"a", "n">>, <<"a", "n", "d">>, <<"o", "r">>,
      <<"b", "u", "t">>, <<"i", "n">>, <<"o", "n">>, <<"a", "t">>, <<"t", "o">>,
      <<"f", "o", "r">>, <<"o", "f">>, <<"w", "i", "t", "h">>, <<"b", "y">> }

\* the distinct items of a sequence, in first-seen order (the keys of a Counter)
FirstSeen(seq) ==
    LET idx == Sorted({i \in 1..Len(seq) : \A j \in 1..(i - 1) : seq[j] # seq[i]})
    IN  [k \in 1..Len(idx) |-> seq[idx[k]]]

Count(seq, w) == Cardinality({i \in 1..Len(seq) : seq[i] = w})

\* a stable sort by descending score (list.sort(reverse=True), most_common)
SortDesc(items, Score(_)) ==
    LET n == Len(items)
        rank(i) == Cardinality({j \in 1..n :
                       \/ Score(items[j]) > Score(items[i])
                       \/ Score(items[j]) = Score(items[i]) /\ j < i}) + 1
    IN  [r \in 1..n |-> items[CHOOSE i \in 1..n : rank(i) = r]]

\* a variant of the token filter that lets stop words through
KeepStopWords(w) == Len(w) > 2 /\ IsAlpha(w)

\* the tokens _extract_with_nltk keeps: no stop words, longer than 2, alphabetic
KeepToken(w) == w \notin StopWords /\ Len(w) > 2 /\ IsAlpha(w)

\* _extract_with_nltk, given whether the tagger tags the kept tokens as nouns
\* (tagged), or raises so that all of them are used
_extract_with_nltk(t, top_k, tagged) ==
    LET filtered == SelectSeq(split(lower(t)), KeepToken)
        nouns == IF tagged THEN filtered ELSE <<>>
        CountOf(w) == Count(nouns, w)
    IN  Prefix(SortDesc(FirstSeen(nouns), CountOf), top_k)

\* re.findall(r'\b[a-zA-Z]{3,}\b', text) on a text of letters and whitespace
RegexWords(t) ==
    LET Long(w) == Len(w) >= 3 /\ IsAlpha(w)
    IN  SelectSeq(split(t), Long)

\* the score _extract_with_regex gives a word of the lower-cased text
RegexScore(t, words, w) ==
    Count(words, w)
    + (IF Len(w) > 4 THEN 1 ELSE 0)
    - (IF \/ EndsWith(w, <<"i", "n", "g">>) \/ EndsWith(w, <<"e", "d">>)
          \/ EndsWith(w, <<"e", "r">>) \/ EndsWith(w, <<"l", "y">>) THEN 1 ELSE 0)
    + (IF Contains(t, title(w)) \/ Contains(t, upper(w)) THEN 1 ELSE 0)

\* _extract_with_regex
_extract_with_regex(t, top_k) ==
    LET lowered == lower(t)
        NotStop(w) == w \notin StopWords
        words == SelectSeq(RegexWords(lowered), NotStop)
        ScoreOf(w) == RegexScore(lowered, words, w)
    IN  Prefix(SortDesc(FirstSeen(words), ScoreOf), top_k)

\* what NLTK does in one extraction: pos_tag tags the kept tokens as nouns, tags
\* none of them as a noun, raises, or is unavailable (its data is missing, a
\* LookupError); or the linguistic tier is broken, word_tokenize raising another
\* exception than LookupError
Taggers == {"nouns", "none", "raises", "unavailable", "broken"}

\* a variant of extract_keywords that runs the regex tier whenever pos_tag fails
TierTwoOnTaggerFailure(t, top_k, tagger) ==
    IF IsBlankText(t) THEN <<>>
    ELSE IF tagger \in {"raises", "unavailable", "broken"} THEN _extract_with_regex(t, top_k)
    ELSE _extract_with_nltk(t, top_k, tagger # "none")

\* extract_keywords: the linguistic tier, which uses every kept token when pos_tag
\* fails, or the regex tier when the linguistic tier itself raises
extract_keywords(t, top_k, tagger) ==
    IF IsBlankText(t) THEN <<>>
    ELSE IF tagger = "broken" THEN _extract_with_regex(t, top_k)
    ELSE _extract_with_nltk(t, top_k, tagger # "none")

\* calculate_confidence_score, in three-hundredths (0.2 * (n / 3.0) is 20 * n)
calculate_confidence_score(t, s, kws) ==
    LET content == IF t # <<>> /\ s # <<>> THEN 90 ELSE 0
        text_length == Len(split(t))
        length == IF text_length > 50 THEN 60
                  ELSE IF text_length > 20 THEN 30
                  ELSE 0
        extraction == IF kws # <<>> THEN 20 * Len(kws) ELSE 0
        quality == IF s # <<>> /\ ~EndsWith(s, OfflineMarker) THEN 90 ELSE 30
        score == content + length + extraction + quality
    IN  IF score > 300 THEN 300 ELSE IF score < 0 THEN 0 ELSE score

(***************************************************************************)
(* Inputs                                                                  *)
(***************************************************************************)

\* the persisted records the model lets the store hold
MaxRecords == 1

Word(k) == IF k % 2 = 1 THEN <<"a">> ELSE <<"b">>

\* n words, sep between them
Text(n, sep) == join(sep, [k \in 1..n |-> Word(k)])

\* a text one character longer than a prompt takes: one-letter words far apart,
\* the last of them past the limit
LongText == [i \in 1..(PromptLimit + 1) |-> IF i % 400 = 1 THEN "a" ELSE " "]

\* the texts a caller submits: empty, blank, padded, at and over the echo limit
\* of the mock summary
RequestTexts ==
    { <<>>,
      <<" ", " ">>,
      <<" ">> \o Text(MockEchoWords, <<" ", " ">>) \o <<" ">>,
      Text(MockEchoWords + 1, <<" ", " ">>) }

\* and the texts of the long-text scenario: blank, or padded and longer than a
\* prompt
PromptTexts == { <<" ">>, <<" ">> \o LongText \o <<" ">> }

\* what the provider returns to a summary prompt
SummaryReplies == { <<>>, <<" ">>, <<"a", ".", "b", ".", "c", ".", " ">> }

\* what the provider returns to a metadata prompt
MetadataReplies == { <<"a">>, <<" ", "full">>, <<"odd">>, <<"null">>, <<"list">> }


(***************************************************************************)
(* State                                                                   *)
(***************************************************************************)

VARIABLES
    pc,        \* where the request in flight stands: "idle" between requests
    req,       \* request.text of the analyze request in flight
    text,      \* analyze_text's local text
    client,    \* LLMService.client is set (an API key is configured)
    phase,     \* the logical request _make_api_call serves: summary or metadata
    attempt,   \* _make_api_call's loop variable
    waits,     \* the seconds slept so far in this _make_api_call
    prompt,    \* the text inside the prompt of this _make_api_call
    reply,     \* the content the provider returned to this _make_api_call
    calls,     \* provider calls issued for each logical request of this analysis
    fails,     \* provider calls that failed, for each logical request
    source,    \* where each result came from: "provider" or "mock"
    summary,   \* analyze_text's local summary
    metadata,  \* analyze_text's local metadata
    keywords,  \* analyze_text's local keywords
    db,        \* the rows of table analyses, in insertion order
    query,     \* the filters of the search request in flight
    strategy,  \* the search strategy that served the request in flight
    resp       \* the response to the request in flight

request == <<req, text, client>>
retry == <<phase, attempt, waits, prompt, reply>>
counts == <<calls, fails>>
outputs == <<source, summary, metadata, keywords>>
search == <<query, strategy>>
locals == <<text, client, retry, counts, outputs>>

vars == <<pc, request, retry, counts, outputs, db, search, resp>>

\* no search request
NoQuery == [topic |-> JNone, keyword |-> JNone, sentiment |-> JNone, limit |-> 0]

\* no content received
NoReply == [received |-> FALSE]
Reply(content) == [received |-> TRUE, content |-> content]

\* the locals of a request before it starts
NoCalls == [summary |-> 0, metadata |-> 0]
NoSource == [summary |-> "none", metadata |-> "none"]

LocalsCleared ==
    /\ text' = <<>> /\ client' = FALSE
    /\ phase' = "none" /\ attempt' = 0 /\ waits' = <<>> /\ prompt' = <<>>
    /\ reply' = NoReply
    /\ calls' = NoCalls /\ fails' = NoCalls
    /\ source' = NoSource /\ summary' = <<>> /\ metadata' = JNone /\ keywords' = <<>>

\* no request yet, an empty table
Quiet ==
    /\ req = <<>> /\ text = <<>> /\ client = FALSE
    /\ phase = "none" /\ attempt = 0 /\ waits = <<>> /\ prompt = <<>>
    /\ reply = NoReply
    /\ calls = NoCalls /\ fails = NoCalls
    /\ source = NoSource /\ summary = <<>> /\ keywords = <<>>
    /\ db = <<>> /\ query = NoQuery /\ strategy = "none"
    /\ resp = [op |-> "none", status |-> 0]

Init == pc = "idle" /\ metadata = JNone /\ Quiet

(***************************************************************************)
(* POST /analyze                                                           *)
(***************************************************************************)

\* a variant of the emptiness test without the strip
EmptyOnly(t) == t = <<>>

\* not request.text or not request.text.strip()
IsBlank(t) == IsBlankText(t)

\* a variant of the stored text that is cut like the prompt
TruncatedText(t) == Prefix(strip(t), PromptLimit)

\* text = request.text.strip()
AnalyzedText(t) == strip(t)

\* analyze_text on an empty text: HTTPException(400)
AnalyzeReject(t) ==
    /\ pc = "idle"
    /\ IsBlank(t)
    /\ req' = t
    /\ query' = NoQuery
    /\ strategy' = "none"
    /\ resp' = [op |-> "analyze", status |-> 400]
    /\ pc' = "responded"
    /\ UNCHANGED <<locals, db>>

\* analyze_text on a valid text: strip it and construct the services
AnalyzeAccept(t, c) ==
    /\ pc = "idle"
    /\ ~IsBlank(t)
    /\ req' = t
    /\ text' = AnalyzedText(t)
    /\ client' = c
    /\ query' = NoQuery
    /\ strategy' = "none"
    /\ resp' = [op |-> "analyze", status |-> 0]
    /\ pc' = "generate_summary"
    /\ UNCHANGED <<retry, counts, outputs, db>>

\* where a logical request starts, and the statement after it
Before(p) == IF p = "summary" THEN "generate_summary" ELSE "extract_metadata"
After(p) == IF p = "summary" THEN "extract_metadata" ELSE "extract_keywords"

\* generate_summary / extract_metadata return to analyze_text, which goes on, or
\* answers 503 when they raise
Returned(p, out) ==
    IF out.ok
    THEN /\ IF p = "summary"
            THEN summary' = out.value /\ UNCHANGED metadata
            ELSE metadata' = out.value /\ UNCHANGED summary
         /\ source' = [source EXCEPT ![p] = IF out.mock THEN "mock" ELSE "provider"]
         /\ pc' = After(p)
         /\ UNCHANGED <<request, phase, attempt, waits, prompt, keywords, db, search, resp>>
    ELSE /\ resp' = [op |-> "analyze", status |-> 503]
         /\ pc' = "responded"
         /\ UNCHANGED <<request, phase, attempt, waits, prompt, outputs, db, search>>

\* generate_summary / extract_metadata without a client: the mock, at once
NoClient(p) ==
    /\ pc = Before(p)
    /\ ~client
    /\ Returned(p, Mocked(IF p = "summary" THEN _mock_summary(text)
                                           ELSE _mock_metadata(text)))
    /\ UNCHANGED <<reply, counts>>

\* generate_summary / extract_metadata with a client: build the prompt, enter
\* _make_api_call
BeginCall(p) ==
    /\ pc = Before(p)
    /\ client
    /\ phase' = p
    /\ prompt' = Prefix(text, PromptLimit)
    /\ attempt' = 0
    /\ waits' = <<>>
    /\ reply' = NoReply
    /\ pc' = "attempt"
    /\ UNCHANGED <<request, counts, outputs, db, search, resp>>

\* _make_api_call: one iteration issues chat.completions.create under wait_for
Issue ==
    /\ pc = "attempt"
    /\ calls' = [calls EXCEPT ![phase] = @ + 1]
    /\ pc' = "await"
    /\ UNCHANGED <<request, retry, fails, outputs, db, search, resp>>

\* _make_api_call returns a response, or raises the exception of the last attempt
Resolve(r) ==
    Returned(phase, IF phase = "summary" THEN generate_summary(r, text)
                                         ELSE extract_metadata(r, text))

\* the provider answers with content: return content.strip()
ProviderReturns(content) ==
    /\ pc = "await"
    /\ content \in (IF phase = "summary" THEN SummaryReplies ELSE MetadataReplies)
    /\ Resolve(Return(strip(content)))
    /\ reply' = Reply(content)
    /\ UNCHANGED counts

\* a failed attempt: raise after the last one, else go on as the handler says
Failed(next) ==
    /\ IF IsLastAttempt(attempt)
       THEN Resolve(Raise("Exception"))
       ELSE /\ pc' = next
            /\ attempt' = (IF next = "attempt" THEN attempt + 1 ELSE attempt)
            /\ UNCHANGED <<request, phase, waits, prompt, outputs, db, search, resp>>
    /\ fails' = [fails EXCEPT ![phase] = @ + 1]
    /\ UNCHANGED <<calls, reply>>

\* except asyncio.TimeoutError: wait_for timed out; the next iteration follows
ProviderTimeout ==
    /\ pc = "await"
    /\ Failed("attempt")

\* except Exception (a provider error, or a response without content): the
\* backoff sleep follows
ProviderError ==
    /\ pc = "await"
    /\ Failed("sleep")

\* await asyncio.sleep(2 ** attempt), then the next iteration
Backoff ==
    /\ pc = "sleep"
    /\ waits' = Append(waits, BackoffSeconds(attempt))
    /\ attempt' = attempt + 1
    /\ pc' = "attempt"
    /\ UNCHANGED <<request, phase, prompt, reply, counts, outputs, db, search, resp>>

\* text_processor.extract_keywords(text, top_k=3)
ExtractKeywords(tagger) ==
    /\ pc = "extract_keywords"
    /\ keywords' = extract_keywords(text, 3, tagger)
    /\ pc' = "create_analysis"
    /\ UNCHANGED <<request, retry, counts, source, summary, metadata, db, search, resp>>

\* the row create_analysis adds: id and created_at are assigned by the store
Analysis(id, t, result) ==
    [ id |-> id,
      text |-> t,
      summary |-> result.summary,
      title |-> get(result, "title", JNone),
      topics |-> get(result, "topics", JList(<<>>)),
      sentiment |-> result.sentiment,
      keywords |-> get(result, "keywords", <<>>),
      created_at |-> id ]

\* analyze_text's analysis_result
AnalysisResult ==
    [ summary |-> summary,
      title |-> get(metadata.d, "title", JNone),
      topics |-> get(metadata.d, "topics", JList(<<>>)),
      sentiment |-> get(metadata.d, "sentiment", JStr(<<"neutral">>)),
      keywords |-> keywords ]

\* AnalysisResponse(...) of analyze_text
AnalysisResponse(row) ==
    [ id |-> row.id,
      text |-> text,
      summary |-> summary,
      title |-> get(metadata.d, "title", JNone),
      topics |-> get(metadata.d, "topics", JList(<<>>)),
      sentiment |-> get(metadata.d, "sentiment", JStr(<<"neutral">>)),
      keywords |-> keywords,
      created_at |-> row.created_at ]

\* create_analysis commits the row; analyze_text returns the response
CreateAnalysis ==
    /\ pc = "create_analysis"
    /\ LET row == Analysis(Len(db) + 1, text, AnalysisResult)
       IN  /\ db' = Append(db, row)
           /\ resp' = [op |-> "analyze", status |-> 200, body |-> AnalysisResponse(row)]
    /\ pc' = "responded"
    /\ UNCHANGED <<req, locals, search>>

\* a variant of the failing commit that leaves the row it was adding in the table
CreateAnalysisKeepsRow ==
    /\ pc = "create_analysis"
    /\ db' = Append(db, Analysis(Len(db) + 1, text, AnalysisResult))
    /\ resp' = [op |-> "analyze", status |-> 500]
    /\ pc' = "responded"
    /\ UNCHANGED <<req, locals, search>>

\* db.commit() raises: create_analysis rolls back and re-raises, analyze_text
\* answers 500
CreateAnalysisFails ==
    /\ pc = "create_analysis"
    /\ resp' = [op |-> "analyze", status |-> 500]
    /\ pc' = "responded"
    /\ UNCHANGED <<req, locals, db, search>>

\* startup_event: init_db(clear_existing=True) drops the table and creates it anew
Startup ==
    /\ pc = "idle"
    /\ db # <<>>
    /\ db' = <<>>
    /\ UNCHANGED <<pc, request, retry, counts, outputs, search, resp>>

\* a handler has returned or raised its HTTPException: the response is sent and
\* the locals of the request are gone
RequestDone ==
    /\ pc = "responded"
    /\ pc' = "idle"
    /\ req' = <<>>
    /\ LocalsCleared
    /\ query' = NoQuery
    /\ strategy' = "none"
    /\ resp' = [op |-> "none", status |-> 0]
    /\ UNCHANGED db

(***************************************************************************)
(* GET /search                                                             *)
(***************************************************************************)

\* the truth value of an Optional[str] filter
Truthy(f) == f.t = "str" /\ f.s # <<>>

\* s LIKE p from position i of s and j of p: % stands for any run of
\* characters, _ for any one character
RECURSIVE LikeFrom(_, _, _, _)
LikeFrom(s, p, i, j) ==
    IF j > Len(p) THEN i > Len(s)
    ELSE IF p[j] = "%" THEN \E k \in i..(Len(s) + 1) : LikeFrom(s, p, k, j + 1)
    ELSE /\ i <= Len(s)
         /\ p[j] = "_" \/ p[j] = s[i]
         /\ LikeFrom(s, p, i + 1, j + 1)

\* column.ilike(f'%{pat}%'): lower(column) LIKE lower('%pat%'), pat not escaped
ILike(s, pat) == LikeFrom(lower(s), <<"%">> \o lower(pat) \o <<"%">>, 1, 1)

\* the same on a nullable column
NullableILike(col, pat) == col.t = "str" /\ ILike(col.s, pat)

\* the JSON text of a list of strings, as the store keeps it
JsonText(items) ==
    <<"[">> \o join(<<",", " ">>, [i \in 1..Len(items) |-> <<"\"">> \o items[i] \o <<"\"">>])
            \o <<"]">>

\* column REGEXP '(?i).*pat.*': pat is found in the column as a regular
\* expression, in which a full stop stands for any one character
Regexp(s, pat) ==
    LET subject == lower(s)
        re == lower(pat)
    IN  \E i \in 1..(Len(subject) - Len(re) + 1) :
            \A k \in 1..Len(re) : re[k] = "." \/ re[k] = subject[i + k - 1]

\* the strings of a topics column
TopicStrings(topics) ==
    IF topics.t = "list" THEN [i \in 1..Len(topics.l) |-> str(topics.l[i])] ELSE <<>>

\* a variant of the filter of crud.search_analyses that does not look for the
\* keyword in the text column
TextlessMatch(row, q) ==
    /\ Truthy(q.topic) =>
          \/ Regexp(JsonText(TopicStrings(row.topics)), lower(q.topic.s))
          \/ NullableILike(row.title, q.topic.s)
          \/ ILike(row.summary, q.topic.s)
    /\ Truthy(q.keyword) =>
          \/ Regexp(JsonText(row.keywords), lower(q.keyword.s))
          \/ ILike(row.summary, q.keyword.s)
    /\ Truthy(q.sentiment) => row.sentiment.s = lower(q.sentiment.s)

\* the filter of crud.search_analyses
PrimaryMatch(row, q) ==
    /\ Truthy(q.topic) =>
          \/ Regexp(JsonText(TopicStrings(row.topics)), lower(q.topic.s))
          \/ NullableILike(row.title, q.topic.s)
          \/ ILike(row.summary, q.topic.s)
    /\ Truthy(q.keyword) =>
          \/ Regexp(JsonText(row.keywords), lower(q.keyword.s))
          \/ ILike(row.text, q.keyword.s)
          \/ ILike(row.summary, q.keyword.s)
    /\ Truthy(q.sentiment) => row.sentiment.s = lower(q.sentiment.s)

\* the filter of crud._simple_search
SimpleMatch(row, q) ==
    /\ Truthy(q.topic) =>
          \/ NullableILike(row.title, q.topic.s)
          \/ ILike(row.summary, q.topic.s)
          \/ ILike(row.text, q.topic.s)
    /\ Truthy(q.keyword) =>
          \/ ILike(row.text, q.keyword.s)
          \/ ILike(row.summary, q.keyword.s)
          \/ NullableILike(row.title, q.keyword.s)
    /\ Truthy(q.sentiment) => row.sentiment.s = lower(q.sentiment.s)

\* a variant of the query without the order_by: the first rows of the table
InsertionOrder(rows, limit) == Prefix(rows, limit)

\* query.order_by(Analysis.created_at.desc()).limit(limit).all()
NewestFirst(rows, limit) ==
    LET CreatedAt(row) == row.created_at
    IN  Prefix(SortDesc(rows, CreatedAt), limit)

\* crud._simple_search: its query works, or raises and the empty list is returned
_simple_search(rows, q, works) ==
    LET Simple(row) == SimpleMatch(row, q)
    IN  IF works THEN Return(NewestFirst(SelectSeq(rows, Simple), q.limit))
        ELSE Return(<<>>)

\* a variant of search_analyses that calls _simple_search without the limit
\* (its default is 10) and lets the exception of a failing fallback through
UnguardedSearch(rows, q, outcome) ==
    LET Primary(row) == PrimaryMatch(row, q)
        Simple(row) == SimpleMatch(row, q)
    IN  CASE outcome = "primary" -> Return(NewestFirst(SelectSeq(rows, Primary), q.limit))
          [] outcome = "fallback" -> Return(NewestFirst(SelectSeq(rows, Simple), 10))
          [] OTHER -> Raise("OperationalError")

\* crud.search_analyses under each outcome of the store: the primary query
\* works, it raises and _simple_search works, or both raise
search_analyses(rows, q, outcome) ==
    LET Primary(row) == PrimaryMatch(row, q)
    IN  IF outcome = "primary"
        THEN Return(NewestFirst(SelectSeq(rows, Primary), q.limit))
        ELSE _simple_search(rows, q, outcome = "fallback")

\* a variant of the confidence of one result that is not capped
UncappedConfidence(row, q) ==
    LET topics == TopicStrings(row.topics)
        topic_matches ==
            Cardinality({i \in 1..Len(topics) :
                            /\ Truthy(q.topic)
                            /\ Contains(lower(topics[i]), lower(q.topic.s))})
        keyword_matches ==
            Cardinality({i \in 1..Len(row.keywords) :
                            /\ Truthy(q.keyword)
                            /\ Contains(lower(row.keywords[i]), lower(q.keyword.s))})
        sentiment_bonus ==
            IF Truthy(q.sentiment) /\ row.sentiment.s = lower(q.sentiment.s) THEN 30 ELSE 0
    IN  50 + 20 * topic_matches + 15 * keyword_matches + sentiment_bonus

\* the confidence of one result, in hundredths
Confidence(row, q) ==
    LET topics == TopicStrings(row.topics)
        topic_matches ==
            IF Truthy(q.topic) /\ topics # <<>>
            THEN Cardinality({i \in 1..Len(topics) :
                                 Contains(lower(topics[i]), lower(q.topic.s))})
            ELSE 0
        keyword_matches ==
            IF Truthy(q.keyword) /\ row.keywords # <<>>
            THEN Cardinality({i \in 1..Len(row.keywords) :
                                 Contains(lower(row.keywords[i]), lower(q.keyword.s))})
            ELSE 0
        sentiment_bonus ==
            IF Truthy(q.sentiment) /\ row.sentiment.s = lower(q.sentiment.s) THEN 30 ELSE 0
        confidence == 50 + 20 * topic_matches + 15 * keyword_matches + sentiment_bonus
    IN  IF confidence < 100 THEN confidence ELSE 100

\* SearchResponse(...) of the search handler
SearchResponse(row, q) ==
    [ id |-> row.id,
      summary |-> row.summary,
      title |-> row.title,
      topics |-> row.topics,
      sentiment |-> row.sentiment,
      keywords |-> row.keywords,
      created_at |-> row.created_at,
      confidence_score |-> Confidence(row, q) ]

\* not topic and not keyword and not sentiment
NoFilters(q) == ~Truthy(q.topic) /\ ~Truthy(q.keyword) /\ ~Truthy(q.sentiment)

\* the filters a caller sends
SearchFilters ==
    [ topic : {JNone, JStr(<<>>), JStr(<<"B">>)},
      keyword : {JNone, JStr(<<"b">>)},
      sentiment : {JNone, JStr(<<"Positive">>)},
      limit : {1, 10} ]

\* the search handler without a filter: HTTPException(400)
SearchReject(q) ==
    /\ pc = "idle"
    /\ NoFilters(q)
    /\ query' = q
    /\ strategy' = "none"
    /\ resp' = [op |-> "search", status |-> 400]
    /\ pc' = "responded"
    /\ UNCHANGED <<req, locals, db>>

\* the search handler with a filter: query the store, score the results; an
\* exception is answered with 500
SearchAccept(q, outcome) ==
    /\ pc = "idle"
    /\ ~NoFilters(q)
    /\ query' = q
    /\ strategy' = outcome
    /\ LET found == search_analyses(db, q, outcome)
           results == found.value
       IN  IF found.ok
           THEN resp' = [op |-> "search", status |-> 200,
                         results |-> [i \in 1..Len(results) |-> SearchResponse(results[i], q)]]
           ELSE resp' = [op |-> "search", status |-> 500]
    /\ pc' = "responded"
    /\ UNCHANGED <<req, locals, db>>

(***************************************************************************)
(* The service                                                             *)
(***************************************************************************)

\* the steps of an analysis after the request is accepted
Analyzing ==
    \/ \E p \in {"summary", "metadata"} : NoClient(p)
    \/ \E p \in {"summary", "metadata"} : BeginCall(p)
    \/ Issue
    \/ \E content \in SummaryReplies \cup MetadataReplies : ProviderReturns(content)
    \/ ProviderTimeout
    \/ ProviderError
    \/ Backoff
    \/ \E tagger \in Taggers : ExtractKeywords(tagger)
    \/ CreateAnalysis
    \/ CreateAnalysisFails

Next ==
    \/ \E t \in RequestTexts : AnalyzeReject(t)
    \/ \E t \in RequestTexts, c \in BOOLEAN : Len(db) < MaxRecords /\ AnalyzeAccept(t, c)
    \/ Analyzing
    \/ RequestDone
    \/ Startup
    \/ \E q \in SearchFilters : SearchReject(q)
    \/ \E q \in SearchFilters, outcome \in {"primary", "fallback", "failed"} :
          SearchAccept(q, outcome)

Spec == Init /\ [][Next]_vars

\* the analyses of the long-text scenario
NextPrompt ==
    \/ \E t \in PromptTexts : AnalyzeReject(t)
    \/ \E t \in PromptTexts, c \in BOOLEAN : Len(db) < MaxRecords /\ AnalyzeAccept(t, c)
    \/ Analyzing
    \/ RequestDone
    \/ Startup

SpecPrompt == Init /\ [][NextPrompt]_vars

(***************************************************************************)
(* The service without an API key: analyses of short texts made of words,  *)
(* and searches over several records                                       *)
(***************************************************************************)

\* the persisted records of this scenario
MaxRows == 2

\* "Tan tan ant" and "bat"
SearchTexts ==
    { <<"T", "a", "n", " ", "t", "a", "n", " ", "a", "n", "t">>,
      <<"b", "a", "t">> }

\* the filters a caller sends in this scenario
WordFilters ==
    [ topic : {JNone, JStr(<<"General">>), JStr(<<"%">>)},
      keyword : {JNone, JStr(<<"A", "n">>)},
      sentiment : {JNone, JStr(<<"Neutral">>), JStr(<<"positive">>)},
      limit : {1, 2} ]

NextSearch ==
    \/ \E t \in SearchTexts : Len(db) < MaxRows /\ AnalyzeAccept(t, FALSE)
    \/ \E p \in {"summary", "metadata"} : NoClient(p)
    \/ \E tagger \in Taggers : ExtractKeywords(tagger)
    \/ CreateAnalysis
    \/ CreateAnalysisFails
    \/ RequestDone
    \/ Startup
    \/ \E q \in WordFilters : SearchReject(q)
    \/ \E q \in WordFilters, outcome \in {"primary", "fallback", "failed"} :
          SearchAccept(q, outcome)

SpecSearch == Init /\ [][NextSearch]_vars


(***************************************************************************)
(* The metadata validator on its own: _validate_metadata applied to a      *)
(* decoded structure, and again to its result                              *)
(***************************************************************************)

\* the longest topics list handed to the validator
MaxTopics == 4

\* a key the structure lacks
Absent == [t |-> "absent"]

TitleValues ==
    { Absent, JNone, JInt(1), JStr(<<>>), JStr(<<" ">>), JStr(<<"T">>),
      JStr(<<" ", "T", " ">>) }

TopicItems == { JNone, JStr(<<" ">>), JStr(<<" ", "x">>), JStr(<<"y">>) }

TopicsValues ==
    { Absent, JNone, JStr(<<"x">>) }
    \cup { JList(l) : l \in UNION { [1..n -> TopicItems] : n \in 0..MaxTopics } }

SentimentValues ==
    { Absent, JNone, JInt(1), JList(<<>>), JStr(<<>>), JStr(<<"positive">>),
      JStr(<<"Positive">>), JStr(<<"NEGATIVE">>), JStr(<<"neutral">>),
      JStr(<<" ", "positive">>), JStr(<<"very_positive">>) }

\* the dict with the keys that are given
DictOf(tv, pv, sv) ==
    LET all == [title |-> tv, topics |-> pv, sentiment |-> sv]
    IN  JDict([k \in {k \in DOMAIN all : all[k] # Absent} |-> all[k]])

\* the decoded structures: dicts, the mock metadata, and values that are no dict
Structures ==
    { DictOf(tv, pv, sv) : tv \in TitleValues, pv \in TopicsValues, sv \in SentimentValues }
    \cup { _mock_metadata(<<>>), JNone, JList(<<>>), JStr(<<"x">>), JInt(1) }

InitValidate == pc = "validate" /\ metadata \in Structures /\ Quiet

\* cleaned = self._validate_metadata(metadata), on a structure and on a result
Validate ==
    /\ pc \in {"validate", "validated"}
    /\ LET cleaned == _validate_metadata(metadata)
       IN  IF cleaned.ok
           THEN /\ metadata' = cleaned.value
                /\ pc' = (IF pc = "validate" THEN "validated" ELSE "revalidated")
           ELSE /\ pc' = "raised"
                /\ UNCHANGED metadata
    /\ UNCHANGED <<request, retry, counts, source, summary, keywords, db, search, resp>>

NextValidate == Validate

SpecValidate == InitValidate /\ [][NextValidate]_vars


(***************************************************************************)
(* The keyword extractor on its own: extract_keywords applied to a text    *)
(* of whitespace-separated words                                           *)
(***************************************************************************)

\* the longest text handed to the extractor, in words
MaxWords == 3

\* "and" and "an" are stop words, "t4b" is not alphabetic, "Tan" is capitalised,
\* "carting" and "cabinet" are longer than 4, "carting" and "bed" end like verbs
KeywordWords ==
    { <<"a", "n", "d">>, <<"a", "n">>, <<"T", "a", "n">>, <<"a", "n", "t">>,
      <<"t", "4", "b">>, <<"c", "a", "r", "t", "i", "n", "g">>,
      <<"b", "e", "d">>, <<"c", "a", "b", "i", "n", "e", "t">> }

\* the texts: up to MaxWords words separated by one space, and blank texts
KeywordTexts ==
    { join(<<" ">>, ws) : ws \in UNION { [1..n -> KeywordWords] : n \in 0..MaxWords } }
    \cup { <<" ">>, <<" ", " ">> }

\* the values of top_k
TopKs == 0..3

\* every variable but pc and the arguments of the call is as before any request
NoRequest ==
    /\ req = <<>> /\ client = FALSE
    /\ phase = "none" /\ attempt = 0 /\ waits = <<>> /\ prompt = <<>>
    /\ reply = NoReply
    /\ calls = NoCalls /\ fails = NoCalls
    /\ source = NoSource /\ metadata = JNone
    /\ db = <<>> /\ query = NoQuery /\ strategy = "none"
    /\ resp = [op |-> "none", status |-> 0]

InitKeywords ==
    /\ pc = "call"
    /\ text \in KeywordTexts
    /\ summary = <<>> /\ keywords = <<>>
    /\ NoRequest

\* keywords = text_processor.extract_keywords(text, top_k)
CallExtractKeywords(top_k, tagger) ==
    /\ pc = "call"
    /\ keywords' = extract_keywords(text, top_k, tagger)
    /\ resp' = [op |-> "extract_keywords", status |-> 0, top_k |-> top_k, tagger |-> tagger]
    /\ pc' = "returned"
    /\ UNCHANGED <<request, retry, counts, source, summary, metadata, db, search>>

NextKeywords == \E top_k \in TopKs, tagger \in Taggers : CallExtractKeywords(top_k, tagger)

SpecKeywords == InitKeywords /\ [][NextKeywords]_vars


(***************************************************************************)
(* The confidence scorer on its own: calculate_confidence_score applied to *)
(* a text, a summary and a list of keywords                                *)
(***************************************************************************)

\* the longest keyword list handed to the scorer
MaxKeywords == 6

\* texts of no word (empty, blank) and of 1, 20, 21, 50 and 51 words
ScoredTexts == { <<" ">> } \cup { Text(n, <<" ">>) : n \in {0, 1, 20, 21, 50, 51} }

\* no summary, a summary of the provider, the offline wording without its
\* brackets, and a summary that ends with the marker of the mock summary
ScoredSummaries ==
    { <<>>,
      <<"S">>,
      <<"Summary", " ", "generated", " ", "offline">>,
      <<"S", ".", ".", ".", " ">> \o OfflineMarker }

\* lists of n keywords
ScoredKeywords == { [k \in 1..n |-> <<"k">>] : n \in 0..MaxKeywords }

InitScore ==
    /\ pc = "call"
    /\ text \in ScoredTexts
    /\ summary \in ScoredSummaries
    /\ keywords \in ScoredKeywords
    /\ NoRequest

\* score = text_processor.calculate_confidence_score(text, summary, keywords)
CallConfidenceScore ==
    /\ pc = "call"
    /\ resp' = [op |-> "calculate_confidence_score", status |-> 0,
                value |-> calculate_confidence_score(text, summary, keywords)]
    /\ pc' = "returned"
    /\ UNCHANGED <<request, retry, counts, outputs, db, search>>

NextScore == CallConfidenceScore

SpecScore == InitScore /\ [][NextScore]_vars


(***************************************************************************)
(* Requests in flight together: two analyze requests, each with its own    *)
(* session, LLMService and TextProcessor, and a search request.  In this   *)
(* scenario pc, req, text, client, summary, metadata and keywords hold one *)
(* value per analyze request and resp one value per request; the table is  *)
(* the only state the requests share.  A handler gives way to the others   *)
(* where it awaits the provider; the steps after the last await are taken  *)
(* one by one, as they are by handlers of different worker processes.      *)
(***************************************************************************)

\* the records the requests of this scenario create
MaxCreated == 2

Requests == {"first", "second"}

\* "Tan tan ant"
ConcurrentTexts == { <<"T", "a", "n", " ", "t", "a", "n", " ", "a", "n", "t">> }

\* what _make_api_call ends with when there is a client: the content of the
\* provider
SummaryOutcomes == { Return(<<"S", ".">>) }
MetadataOutcomes == { Return(<<"full">>) }

\* the filters of the search request
ConcurrentFilters ==
    { [topic |-> JNone, keyword |-> JStr(<<"A", "n">>), sentiment |-> JNone, limit |-> 2] }

NoResponse == [op |-> "none", status |-> 0]

InitConcurrent ==
    /\ pc = [r \in Requests |-> "idle"]
    /\ req = [r \in Requests |-> <<>>]
    /\ text = [r \in Requests |-> <<>>]
    /\ client = [r \in Requests |-> FALSE]
    /\ summary = [r \in Requests |-> <<>>]
    /\ metadata = [r \in Requests |-> JNone]
    /\ keywords = [r \in Requests |-> <<>>]
    /\ resp = [r \in Requests \cup {"search"} |-> NoResponse]
    /\ phase = "none" /\ attempt = 0 /\ waits = <<>> /\ prompt = <<>>
    /\ reply = NoReply
    /\ calls = NoCalls /\ fails = NoCalls
    /\ source = NoSource
    /\ db = <<>> /\ query = NoQuery /\ strategy = "none"

\* the analyze requests that have not yet reached the store
InFlight ==
    {r \in Requests : pc[r] \in {"generate_summary", "extract_metadata",
                                  "extract_keywords", "create_analysis"}}

\* a variant of the primary key that is the same for every row
FirstId(rows) == 1

\* the primary key the store gives the next row
NextId(rows) == Len(rows) + 1

\* analyze_text of request r on a valid text, up to the first await
ConcurrentAccept(r, t, c) ==
    /\ pc[r] = "idle"
    /\ ~IsBlank(t)
    /\ req' = [req EXCEPT ![r] = t]
    /\ text' = [text EXCEPT ![r] = AnalyzedText(t)]
    /\ client' = [client EXCEPT ![r] = c]
    /\ resp' = [resp EXCEPT ![r] = [op |-> "analyze", status |-> 0]]
    /\ pc' = [pc EXCEPT ![r] = "generate_summary"]
    /\ UNCHANGED <<retry, counts, outputs, db, search>>

\* summary = await llm_service.generate_summary(text) of request r
ConcurrentSummary(r, outcome) ==
    /\ pc[r] = "generate_summary"
    /\ LET out == IF client[r] THEN generate_summary(outcome, text[r])
                  ELSE Mocked(_mock_summary(text[r]))
       IN  summary' = [summary EXCEPT ![r] = out.value]
    /\ pc' = [pc EXCEPT ![r] = "extract_metadata"]
    /\ UNCHANGED <<request, retry, counts, source, metadata, keywords, db, search, resp>>

\* metadata = await llm_service.extract_metadata(text) of request r
ConcurrentMetadata(r, outcome) ==
    /\ pc[r] = "extract_metadata"
    /\ LET out == IF client[r] THEN extract_metadata(outcome, text[r])
                  ELSE Mocked(_mock_metadata(text[r]))
       IN  metadata' = [metadata EXCEPT ![r] = out.value]
    /\ pc' = [pc EXCEPT ![r] = "extract_keywords"]
    /\ UNCHANGED <<request, retry, counts, source, summary, keywords, db, search, resp>>

\* keywords = text_processor.extract_keywords(text, top_k=3) of request r
ConcurrentKeywords(r, tagger) ==
    /\ pc[r] = "extract_keywords"
    /\ keywords' = [keywords EXCEPT ![r] = extract_keywords(text[r], 3, tagger)]
    /\ pc' = [pc EXCEPT ![r] = "create_analysis"]
    /\ UNCHANGED <<request, retry, counts, source, summary, metadata, db, search, resp>>

\* analysis_result of request r
ResultOf(r) ==
    [ summary |-> summary[r],
      title |-> get(metadata[r].d, "title", JNone),
      topics |-> get(metadata[r].d, "topics", JList(<<>>)),
      sentiment |-> get(metadata[r].d, "sentiment", JStr(<<"neutral">>)),
      keywords |-> keywords[r] ]

\* create_analysis of request r commits its row; analyze_text returns the response
ConcurrentCreate(r) ==
    /\ pc[r] = "create_analysis"
    /\ LET row == Analysis(NextId(db), text[r], ResultOf(r))
       IN  /\ db' = Append(db, row)
           /\ resp' = [resp EXCEPT ![r] =
                         [op |-> "analyze", status |-> 200,
                          body |-> [ResultOf(r) EXCEPT !.summary = summary[r]]
                                   @@ [id |-> row.id, text |-> text[r],
                                       created_at |-> row.created_at]]]
    /\ pc' = [pc EXCEPT ![r] = "responded"]
    /\ UNCHANGED <<req, locals, search>>

\* db.commit() of request r raises: rollback, 500
ConcurrentCreateFails(r) ==
    /\ pc[r] = "create_analysis"
    /\ resp' = [resp EXCEPT ![r] = [op |-> "analyze", status |-> 500]]
    /\ pc' = [pc EXCEPT ![r] = "responded"]
    /\ UNCHANGED <<req, locals, db, search>>

\* the response of request r is sent, its locals are gone
ConcurrentDone(r) ==
    /\ pc[r] = "responded"
    /\ pc' = [pc EXCEPT ![r] = "idle"]
    /\ req' = [req EXCEPT ![r] = <<>>]
    /\ text' = [text EXCEPT ![r] = <<>>]
    /\ client' = [client EXCEPT ![r] = FALSE]
    /\ summary' = [summary EXCEPT ![r] = <<>>]
    /\ metadata' = [metadata EXCEPT ![r] = JNone]
    /\ keywords' = [keywords EXCEPT ![r] = <<>>]
    /\ resp' = [resp EXCEPT ![r] = NoResponse]
    /\ UNCHANGED <<retry, counts, source, db, search>>

\* the search handler, which awaits nothing: query the store, score the results
ConcurrentSearch(q, outcome) ==
    /\ ~NoFilters(q)
    /\ query' = q
    /\ strategy' = outcome
    /\ LET found == search_analyses(db, q, outcome)
           results == found.value
       IN  resp' = [resp EXCEPT !["search"] =
                      IF found.ok
                      THEN [op |-> "search", status |-> 200,
                            results |-> [i \in 1..Len(results) |->
                                            SearchResponse(results[i], q)]]
                      ELSE [op |-> "search", status |-> 500]]
    /\ UNCHANGED <<pc, req, locals, db>>

NextConcurrent ==
    \/ \E r \in Requests, t \in ConcurrentTexts, c \in BOOLEAN :
          Len(db) + Cardinality(InFlight) < MaxCreated /\ ConcurrentAccept(r, t, c)
    \/ \E r \in Requests, outcome \in SummaryOutcomes : ConcurrentSummary(r, outcome)
    \/ \E r \in Requests, outcome \in MetadataOutcomes : ConcurrentMetadata(r, outcome)
    \/ \E r \in Requests, tagger \in Taggers : ConcurrentKeywords(r, tagger)
    \/ \E r \in Requests : ConcurrentCreate(r)
    \/ \E r \in Requests : ConcurrentCreateFails(r)
    \/ \E r \in Requests : ConcurrentDone(r)
    \/ \E q \in ConcurrentFilters, outcome \in {"primary", "fallback", "failed"} :
          ConcurrentSearch(q, outcome)

SpecConcurrent == InitConcurrent /\ [][NextConcurrent]_vars


(***************************************************************************)
(* Properties of POST /analyze and of the provider calls                   *)
(***************************************************************************)

\* the last row of the table
LastRow == db[Len(db)]

\* an analyze request was answered with 200
Analyzed == resp.op = "analyze" /\ resp.status = 200

\* sentiment is one of the three labels and topics is a list of exactly 3
HasLabelAndTopics(rec) ==
    /\ rec.sentiment \in {JStr(<<"positive">>), JStr(<<"neutral">>), JStr(<<"negative">>)}
    /\ rec.topics.t = "list"
    /\ Len(rec.topics.l) = 3

\* C1: every persisted record and every returned record has a sentiment in
\* {positive, neutral, negative} and exactly 3 topics; and the only error an analyze request is
\* answered with, besides the 400 of an empty text, is the 500 of a store that
\* refused the record after summary, metadata and keywords were all produced:
\* no behaviour of the provider is answered with an error.
C1_AnalysisCompletes ==
    /\ \A i \in 1..Len(db) : HasLabelAndTopics(db[i])
    /\ Analyzed => HasLabelAndTopics(resp.body) /\ db # <<>> /\ resp.body.id = LastRow.id
    /\ resp.op = "analyze" =>
          /\ resp.status \in {0, 200, 400, 500}
          /\ resp.status = 500 =>
                source.summary # "none" /\ source.metadata # "none"

\* an analysis answered with 200 although every attempt of both logical
\* requests failed
C1_Witness ==
    /\ Analyzed
    /\ client
    /\ fails.summary = max_retries /\ fails.metadata = max_retries
    /\ HasLabelAndTopics(LastRow)
    /\ resp.body.sentiment = JStr(<<"neutral">>)

Undecodable(content) ==
    LET decoded == json_loads(strip(content))
    IN  ~decoded.ok \/ ~_validate_metadata(decoded.value).ok

C3_BackoffAfterEveryFailure ==
    pc \in {"attempt", "await"} => waits = [i \in 1..attempt |-> 2 ^ (i - 1)]

\* the provider answers the metadata request with content that does not decode
UndecodableAnswer ==
    /\ pc = "await"
    /\ phase = "metadata"
    /\ ~reply.received
    /\ reply'.received
    /\ ~json_loads(strip(reply'.content)).ok

FallbackSummary(t) ==
    LET words == split(t)
    IN  IF Len(words) <= 20 THEN t
        ELSE <<"This", " ", "text", " ", "discusses", " ">>
             \o join(<<" ">>, SubSeq(words, 1, 15))
             \o <<".", ".", ".", " ", "[", "Summary", " ", "generated", " ", "offline", "]">>

\* the summary request found no client, or all its attempts failed
SummaryUnreachable ==
    /\ source.summary # "none"
    /\ ~client \/ fails.summary = max_retries

\* C5: when the provider is unreachable for the summary request, the summary is
\* the analyzed text if it has at most 20 words, and otherwise 'This text
\* discusses ' + its first 15 words + '... [Summary generated offline]'; it is a
\* function of the text alone, and it is what the record and the response carry.
C5_FallbackSummary ==
    SummaryUnreachable =>
        /\ summary = FallbackSummary(text)
        /\ Analyzed => resp.body.summary = FallbackSummary(text)
                       /\ LastRow.summary = FallbackSummary(text)

\* both forms of the fallback summary reached: the analysis of a text of exactly
\* 20 words whose 3 attempts failed, persisted with the text as its summary
C5_Witness ==
    /\ Analyzed
    /\ client /\ fails.summary = max_retries
    /\ Len(split(text)) = 20
    /\ LastRow.summary = text

\* an arrival of a request without content: an analyze request whose text is
\* empty or all whitespace, a search request without topic, keyword and sentiment
Empty(f) == f = JNone \/ f = JStr(<<>>)

InvalidArrival ==
    /\ pc = "idle"
    /\ \/ resp'.op = "analyze" /\ \A i \in 1..Len(req') : req'[i] = " "
       \/ resp'.op = "search" /\ Empty(query'.topic) /\ Empty(query'.keyword)
                              /\ Empty(query'.sentiment)

\* C6: an invalid request is answered with 400 and has no effect: no analysis
\* starts and no provider call is made, the store is not queried, and the
\* table is unchanged.
C6_RejectedWithoutEffect ==
    [][InvalidArrival =>
          /\ resp'.status = 400
          /\ pc' = "responded"
          /\ calls' = NoCalls /\ source' = NoSource
          /\ strategy' = "none"
          /\ db' = db]_vars

\* a whitespace-only text rejected while the table holds a record
C6_Witness ==
    /\ resp = [op |-> "analyze", status |-> 400]
    /\ req = <<" ", " ">>
    /\ db # <<>>
    /\ calls = NoCalls

\* C9 as stated: the text of the persisted record and of the response is the
\* text that was submitted.
C9_TextAsSubmitted ==
    Analyzed => resp.body.text = req /\ LastRow.text = req

\* t without the whitespace before its first and after its last other character
Trimmed(t) ==
    LET inner == {i \in 1..Len(t) : t[i] # " "}
    IN  IF inner = {} THEN <<>>
        ELSE SubSeq(t, CHOOSE i \in inner : \A j \in inner : i <= j,
                       CHOOSE i \in inner : \A j \in inner : i >= j)

\* C9 amended: the text of the persisted record and of the response is the
\* submitted text without its leading and trailing whitespace, in full whatever
\* its length; only the text placed in a provider prompt is cut, to its first
\* 2000 characters.
C9_TextTrimmedNotTruncated ==
    /\ Analyzed => resp.body.text = Trimmed(req) /\ LastRow.text = Trimmed(req)
    /\ pc \in {"attempt", "await", "sleep"} =>
          prompt = SubSeq(Trimmed(req), 1, IF Len(Trimmed(req)) < 2000
                                           THEN Len(Trimmed(req)) ELSE 2000)

\* a text longer than a prompt, persisted and returned in full after the
\* provider was sent its first 2000 characters
C9_Witness ==
    /\ Analyzed
    /\ Len(prompt) = 2000
    /\ calls.metadata > 0
    /\ Len(LastRow.text) > 2000
    /\ LastRow.text = Trimmed(req) /\ LastRow.text # req
    /\ resp.body.text = LastRow.text

\* C10: every persisted record has a non-empty summary.
C10_SummaryNonEmpty ==
    \A i \in 1..Len(db) : db[i].summary # <<>>

(***************************************************************************)
(* Properties of the metadata validator                                    *)
(***************************************************************************)

\* title null or a non-empty trimmed string, exactly 3 non-empty topics, and a
\* sentiment among the three labels
Canonical(m) ==
    /\ m.t = "dict"
    /\ DOMAIN m.d = {"title", "topics", "sentiment"}
    /\ \/ m.d.title = JNone
       \/ m.d.title.t = "str" /\ m.d.title.s # <<>> /\ Trimmed(m.d.title.s) = m.d.title.s
    /\ m.d.topics.t = "list"
    /\ Len(m.d.topics.l) = 3
    /\ \A i \in 1..3 : m.d.topics.l[i].t = "str" /\ m.d.topics.l[i].s # <<>>
    /\ m.d.sentiment \in {JStr(<<"positive">>), JStr(<<"neutral">>), JStr(<<"negative">>)}

\* C7: the validator never raises, and what it returns is canonical.
C7_ValidatorNeverFails ==
    /\ pc # "raised"
    /\ pc \in {"validated", "revalidated"} => Canonical(metadata)

\* C8: validating what the validator returned gives the same structure, and
\* validating the mock metadata gives the mock metadata.
C8_ValidatorIdempotent ==
    [][/\ pc = "validated" /\ pc' = "revalidated" => metadata' = metadata
       /\ pc = "validate" /\ metadata = _mock_metadata(<<>>) =>
             pc' = "validated" /\ metadata' = metadata]_vars

\* a structure validated twice, whose topics the validator had to fill in
C8_Witness ==
    /\ pc = "revalidated"
    /\ metadata.d.topics.l[3] = JStr(<<"Topic", " ", "3">>)
    /\ metadata.d.title # JNone

(***************************************************************************)
(* Properties of GET /search                                               *)
(***************************************************************************)

\* a search request was answered with 200
Searched == resp.op = "search" /\ resp.status = 200

\* the row a search result was made from
RowOf(result) == db[result.id]

\* sub is a case-insensitive substring of s
HasSubstring(s, sub) == Contains(lower(s), lower(sub))

\* sub is a case-insensitive substring of a nullable column
ColumnHas(col, sub) == col.t = "str" /\ HasSubstring(col.s, sub)

\* sub is a case-insensitive substring of one string of the list
ListHas(items, sub) == \E i \in 1..Len(items) : HasSubstring(items[i], sub)

\* the row satisfies the filters of q, read as substrings of the fields of the
\* strategy
Satisfies(row, q, strat) ==
    /\ Truthy(q.sentiment) => row.sentiment = JStr(lower(q.sentiment.s))
    /\ Truthy(q.topic) =>
          IF strat = "primary"
          THEN \/ ListHas(TopicStrings(row.topics), q.topic.s)
               \/ ColumnHas(row.title, q.topic.s)
               \/ HasSubstring(row.summary, q.topic.s)
          ELSE \/ ColumnHas(row.title, q.topic.s)
               \/ HasSubstring(row.summary, q.topic.s)
               \/ HasSubstring(row.text, q.topic.s)
    /\ Truthy(q.keyword) =>
          IF strat = "primary"
          THEN \/ ListHas(row.keywords, q.keyword.s)
               \/ HasSubstring(row.text, q.keyword.s)
               \/ HasSubstring(row.summary, q.keyword.s)
          ELSE \/ HasSubstring(row.text, q.keyword.s)
               \/ HasSubstring(row.summary, q.keyword.s)
               \/ ColumnHas(row.title, q.keyword.s)

\* C11: every record a search returns satisfies all the filters given: its
\* sentiment is the lower-cased sentiment filter, the topic filter is a
\* case-insensitive substring of one of the strategy's topic fields, and the
\* keyword filter of one of the strategy's keyword fields.
C11_ResultsSatisfyFilters ==
    Searched =>
        \A i \in 1..Len(resp.results) : Satisfies(RowOf(resp.results[i]), query, strategy)

\* the ids of the records of a list, in order
Ids(rows) == [i \in 1..Len(rows) |-> rows[i].id]

\* the rows the fallback strategy selects for q, newest first, cut at the limit
FallbackRows(q) ==
    LET Simple(row) == SimpleMatch(row, q)
        matching == SelectSeq(db, Simple)
        n == Len(matching)
        newest == [i \in 1..n |-> matching[n + 1 - i]]
    IN  SubSeq(newest, 1, IF n < q.limit THEN n ELSE q.limit)

Matching ==
    {i \in 1..Len(db) : IF strategy = "primary" THEN PrimaryMatch(db[i], query)
                                                ELSE SimpleMatch(db[i], query)}

\* a strategy answered the search
Answered == Searched /\ strategy \in {"primary", "fallback"}

\* C13: under either strategy the result is ordered by creation time, newest
\* first, holds at most `limit` records, all of them selected by the strategy,
\* as many as the limit allows, and no selected record left out is newer than
\* a record of the result.
C13_NewestFirstUpToLimit ==
    Answered =>
        LET r == resp.results
        IN  /\ \A i, j \in 1..Len(r) : i < j => r[i].created_at >= r[j].created_at
            /\ \A i, j \in 1..Len(r) : i < j => r[i].id # r[j].id
            /\ Len(r) <= query.limit
            /\ \A i \in 1..Len(r) : r[i].id \in Matching
            /\ Len(r) = (IF Cardinality(Matching) < query.limit
                         THEN Cardinality(Matching) ELSE query.limit)
            /\ \A m \in Matching :
                  (\A i \in 1..Len(r) : r[i].id # m) =>
                      \A i \in 1..Len(r) : db[m].created_at <= r[i].created_at

\* two records match, the limit is 1, and the result is the newer one
C13_Witness ==
    /\ Answered
    /\ query.limit = 1
    /\ Matching = {1, 2}
    /\ Ids(resp.results) = <<2>>

\* w, lower-cased, is one of the whitespace-separated words of the text
WordOf(w, t) == \E k \in 1..Len(split(lower(t))) : split(lower(t))[k] = lower(w)

\* the request has the topic as its only filter, or the keyword
OnlyTopic == Truthy(query.topic) /\ ~Truthy(query.keyword) /\ ~Truthy(query.sentiment)
OnlyKeyword == Truthy(query.keyword) /\ ~Truthy(query.topic) /\ ~Truthy(query.sentiment)

\* fewer than `limit` records newer than record i are selected too
RoomFor(i) == Cardinality({m \in Matching : m > i}) < query.limit

\* record i is in the result
Returns(i) == \E k \in 1..Len(resp.results) : resp.results[k].id = i

Hits(items, f) ==
    IF f.t = "str" /\ f.s # <<>>
    THEN Cardinality({i \in 1..Len(items) : HasSubstring(items[i], f.s)})
    ELSE 0

\* 1 when the sentiment filter is given and is the sentiment of the row
SentimentHit(row, f) == IF f.t = "str" /\ f.s # <<>> /\ row.sentiment.s = lower(f.s) THEN 1 ELSE 0

Min(a, b) == IF a <= b THEN a ELSE b

\* C15: the score of every search result, in hundredths, is
\* min(100, 50 + 20*T + 15*K + 30*S), T the number of the record's topics that
\* contain the topic filter, K the number of its keywords that contain the
\* keyword filter, S whether the sentiment filter is the record's sentiment; so
\* it lies between 50 and 100.
C15_SearchScore ==
    Searched =>
        \A k \in 1..Len(resp.results) :
            LET result == resp.results[k]
                row == RowOf(result)
                T == Hits(TopicStrings(row.topics), query.topic)
                K == Hits(row.keywords, query.keyword)
                S == SentimentHit(row, query.sentiment)
            IN  /\ result.confidence_score = Min(100, 50 + 20 * T + 15 * K + 30 * S)
                /\ result.confidence_score \in 50..100

\* a result whose topic, two keywords and sentiment all count, so that the sum of
\* 130 is capped
C15_Witness ==
    /\ Searched
    /\ \E k \in 1..Len(resp.results) :
          LET row == RowOf(resp.results[k])
          IN  /\ Hits(TopicStrings(row.topics), query.topic) = 1
              /\ Hits(row.keywords, query.keyword) = 2
              /\ SentimentHit(row, query.sentiment) = 1
              /\ resp.results[k].confidence_score = 100


(***************************************************************************)
(* Properties of TextProcessor                                             *)
(***************************************************************************)

\* extract_keywords has returned
Extracted == pc = "returned" /\ resp.op = "extract_keywords"

\* a word of lower-case letters
LowerAlpha(w) == w # <<>> /\ \A i \in 1..Len(w) : w[i] \in Letters

\* every word of the text is a stop word
OnlyStopWords(t) == \A k \in 1..Len(split(lower(t))) : split(lower(t))[k] \in StopWords

\* C16: extract_keywords returns a list, of at most top_k keywords, empty for an
\* empty or whitespace-only text and for a text of stop words only; every
\* keyword, from either tier, is a lower-cased alphabetic word of the text of
\* length 3 or more that is no stop word.
C16_KeywordsWellFormed ==
    Extracted =>
        /\ keywords \in Seq(Seq(Letters))
        /\ Len(keywords) <= resp.top_k
        /\ IsBlankText(text) => keywords = <<>>
        /\ OnlyStopWords(text) => keywords = <<>>
        /\ \A i \in 1..Len(keywords) :
              /\ LowerAlpha(keywords[i])
              /\ Len(keywords[i]) >= 3
              /\ WordOf(keywords[i], text)
              /\ keywords[i] \notin StopWords

\* the regex tier returns two of the three candidate words of a text that
\* holds a capitalised word, and the linguistic tier one of a text that also
\* holds a stop word
C16_Witness ==
    /\ Extracted
    /\ \/ /\ resp.tagger = "broken"
          /\ resp.top_k = 2
          /\ text = <<"T", "a", "n", " ", "a", "n", "t", " ", "c", "a", "r", "t", "i", "n", "g">>
          /\ Len(keywords) = 2
       \/ /\ resp.tagger = "nouns"
          /\ text = <<"a", "n", "d", " ", "T", "a", "n">>
          /\ keywords = << <<"t", "a", "n">> >>

\* calculate_confidence_score has returned
Scored == pc = "returned" /\ resp.op = "calculate_confidence_score"

\* the summary ends with the marker of the mock summary
Marked(s) == EndsWith(s, OfflineMarker)

\* what the terms other than the keyword term add up to, in three-hundredths:
\* 0.3 for a text with a summary, 0.2 or 0.1 for a text of more than 50 or 20
\* words, 0.3 for a summary without the marker and 0.1 otherwise
OtherTerms(t, s) ==
    (IF t # <<>> /\ s # <<>> THEN 90 ELSE 0)
    + (IF Len(split(t)) > 50 THEN 60 ELSE IF Len(split(t)) > 20 THEN 30 ELSE 0)
    + (IF s # <<>> /\ ~Marked(s) THEN 90 ELSE 30)

\* C17: the score lies in [0, 1] and is made of a keyword term of
\* 0.2 * len(keywords) / 3 that is never more than 0.2, also for more than 3
\* keywords, added to the other terms.
C17_KeywordTermCapped ==
    Scored =>
        /\ resp.value \in 0..300
        /\ resp.value = Min(300, OtherTerms(text, summary) + Min(60, 20 * Len(keywords)))

\* C18: with the same text and keywords, a summary that ends with the marker
\* scores strictly lower than every non-empty summary that does not.
C18_MarkedScoresLower ==
    Scored /\ Marked(summary) =>
        \A other \in ScoredSummaries :
            other # <<>> /\ ~Marked(other) =>
                resp.value < calculate_confidence_score(text, other, keywords)

\* the offline wording, with or without the brackets of the marker
OfflineStyle(s) ==
    Marked(s) \/ s = <<"Summary", " ", "generated", " ", "offline">>

\* C19: a text of at most 20 words, no keywords and an offline-style summary
\* score below 0.5.
C19_LowQualityScoresLow ==
    Scored /\ Len(split(text)) <= 20 /\ keywords = <<>> /\ OfflineStyle(summary) =>
        resp.value < 150


(***************************************************************************)
(* Properties of requests in flight together                               *)
(***************************************************************************)

\* a row with every column set: a stored text, a summary, a title or none, 3
\* topics, a sentiment label, a list of keywords, a creation time
WholeRecord(row) ==
    /\ DOMAIN row = {"id", "text", "summary", "title", "topics", "sentiment",
                     "keywords", "created_at"}
    /\ row.text # <<>>
    /\ row.summary # <<>>
    /\ row.title = JNone \/ row.title.t = "str"
    /\ HasLabelAndTopics(row)
    /\ row.keywords \in Seq(Seq(Letters))
    /\ row.created_at \in 1..Len(db)

\* the row request r was answered with is the one made of the locals of r
OwnRecord(r) ==
    LET body == resp[r].body
    IN  /\ body.id \in 1..Len(db)
        /\ db[body.id] = Analysis(body.id, text[r], ResultOf(r))
        /\ body.text = text[r]
        /\ body.summary = summary[r]
        /\ body.keywords = keywords[r]

\* C20: whatever the interleaving of two analyze requests and a search, the
\* rows of the table have distinct ids and every column set; each analyze
\* request answered with 200 has created a row of its own, made of its own
\* text, summary, metadata and keywords, also when both analyze the same text;
\* and every result of a search is a row of the table with every column set.
C20_RequestsShareNoState ==
    /\ \A i \in 1..Len(db) : WholeRecord(db[i])
    /\ \A i, j \in 1..Len(db) : i # j => db[i].id # db[j].id
    /\ \A r \in Requests : resp[r].status = 200 => OwnRecord(r)
    /\ resp["first"].status = 200 /\ resp["second"].status = 200 =>
          resp["first"].body.id # resp["second"].body.id
    /\ resp["search"].status = 200 =>
          \A k \in 1..Len(resp["search"].results) :
              LET result == resp["search"].results[k]
              IN  /\ result.id \in 1..Len(db)
                  /\ WholeRecord(db[result.id])
                  /\ \A f \in DOMAIN db[result.id] \ {"text"} : result[f] = db[result.id][f]

\* the same text analysed by two requests in flight together, one with the
\* provider's summary and one with the mock's: two rows, and a search that ran
\* between the two commits returned the one row there was
C20_Witness ==
    /\ Len(db) = 2
    /\ db[1].text = db[2].text
    /\ db[1].summary # db[2].summary
    /\ resp["first"].status = 200 /\ resp["first"].body.id = 2
    /\ resp["second"].status = 200 /\ resp["second"].body.id = 1
    /\ resp["search"].status = 200
    /\ query.limit = 2
    /\ Len(resp["search"].results) = 1


(***************************************************************************)
(* Properties of the two tiers of the keyword extractor                    *)
(***************************************************************************)

\* pos_tag raised, or its data is missing
TaggerFailed == resp.tagger \in {"raises", "unavailable"}

\* the words of the lower-cased text that may become keywords
Candidate(w) == LowerAlpha(w) /\ Len(w) >= 3 /\ w \notin StopWords
Candidates(t) == SelectSeq(split(lower(t)), Candidate)

\* the k most frequent candidates, ties in first-seen order
MostFrequent(t, k) ==
    LET words == Candidates(t)
        Occurrences(w) == Count(words, w)
    IN  Prefix(SortDesc(FirstSeen(words), Occurrences), k)

VerbEnding(w) ==
    \/ EndsWith(w, <<"i", "n", "g">>) \/ EndsWith(w, <<"e", "d">>)
    \/ EndsWith(w, <<"e", "r">>) \/ EndsWith(w, <<"l", "y">>)

\* the token occurs capitalised or in upper case in the text as it was given
Capitalised(t, w) == Contains(t, title(w)) \/ Contains(t, upper(w))

\* the score of a token: its count, +1 for a length over 4, -1 for a verb
\* ending, +1 when it is capitalised in the original text
AdjustedScore(t, w) ==
    Count(Candidates(t), w)
    + (IF Len(w) > 4 THEN 1 ELSE 0)
    - (IF VerbEnding(w) THEN 1 ELSE 0)
    + (IF Capitalised(t, w) THEN 1 ELSE 0)

\* C22: the regex tier returns the k tokens of highest score, in descending
\* score order with ties in first-seen order, the score being the count, +1 for
\* a length over 4, -1 for the endings ing, ed, er, ly, and +1 for a token that
\* occurs capitalised or in upper case in the original text.
C22_CapitalisedOutranks ==
    Extracted /\ resp.tagger = "broken" /\ ~IsBlankText(text) =>
        LET ScoreOf(w) == AdjustedScore(text, w)
        IN  keywords = Prefix(SortDesc(FirstSeen(Candidates(text)), ScoreOf), resp.top_k)


(***************************************************************************)
(* Properties of a store that refuses a record                             *)
(***************************************************************************)

\* the analyze request in flight was answered with the internal failure
Refused == resp.op = "analyze" /\ resp.status = 500

\* a row with every column written, as create_analysis builds it
AllColumns(row) ==
    /\ DOMAIN row = {"id", "text", "summary", "title", "topics", "sentiment",
                     "keywords", "created_at"}
    /\ row.text # <<>>
    /\ HasLabelAndTopics(row)

\* the response carries no record, every row of the table has every column,
\* and every result of a search is a row of the table
NothingPartial ==
    /\ Refused => DOMAIN resp = {"op", "status"}
    /\ \A i \in 1..Len(db) : db[i].id = i /\ AllColumns(db[i])
    /\ Searched =>
          \A k \in 1..Len(resp.results) :
              /\ resp.results[k].id \in 1..Len(db)
              /\ \A f \in DOMAIN RowOf(resp.results[k]) \ {"text"} :
                    resp.results[k][f] = RowOf(resp.results[k])[f]

\* create_analysis ends without a 200: the answer is 500 and the table is as
\* it was; it stays so while the answer is sent
RolledBack ==
    /\ pc = "create_analysis" /\ resp'.status # 200 => resp'.status = 500 /\ db' = db
    /\ Refused => db' = db

====
